---- MODULE Spec2Model ----
(***************************************************************************)
(* A model of the emby-icons mirroring pipeline (src/main.py):             *)
(*   fetch_upstream_icons -> process_icons_concurrently ->                 *)
(*   update_allinone_json -> rewrite_source_json_files,                    *)
(* run repeatedly over persisted files (catalog, assets, change log,       *)
(* rewritten manifests).                                                   *)
(*                                                                         *)
(* Representation of Python values:                                        *)
(*   - a str is a sequence: display names and authors are sequences of     *)
(*     code points (so that str.lower() and the ordering of str are        *)
(*     computed), URLs and header values are sequences of string tokens;   *)
(*     the empty str is << >>;                                             *)
(*   - dict.get(key) is an option: << >> is None (key absent), <<v>> is    *)
(*     the value v;                                                        *)
(*   - a dict is a sequence of <<key, value>> pairs in insertion order.    *)
(***************************************************************************)
EXTENDS Integers, Sequences, FiniteSets, TLC

\* ---------------------------------------------------------------- bounds

\* Number of complete runs of main() a behaviour may hold.
MaxRuns == 2

\* Longest "icons" array of an upstream manifest.
MaxIcons == 2

\* Most icons one run submits to the pool.
MaxEntries == 2

\* Most icon objects the manifests of all sources list together.
MaxListed == 3

\* Longest "icons" array of a catalog file found on disk before the first run.
MaxPrior == 2

\* ------------------------------------------------------- generic helpers

None == << >>

Some(v) == <<v>>

IsNone(o) == Len(o) = 0

\* Python truthiness of dict.get(key) for a str value: present and non-empty.
Truthy(o) == Len(o) = 1 /\ Len(o[1]) > 0

Range(s) == { s[i] : i \in DOMAIN s }

SeqsUpTo(S, n) == UNION { [1..k -> S] : k \in 0..n }

RECURSIVE SelectIdx(_, _, _)
\* The subsequence of s at the indices i with keep[i], in order.
SelectIdx(s, keep, i) ==
    IF i > Len(s) THEN << >>
    ELSE (IF keep[i] THEN <<s[i]>> ELSE << >>) \o SelectIdx(s, keep, i + 1)

\* ------------------------------------------------------------- str model

\* str.lower() on ASCII code points: 'A'..'Z' (65..90) map to 'a'..'z'.
Lower(s) == [i \in DOMAIN s |-> IF s[i] \in 65..90 THEN s[i] + 32 ELSE s[i]]

RECURSIVE StrLessFrom(_, _, _)
StrLessFrom(a, b, i) ==
    IF i > Len(a) THEN i <= Len(b)
    ELSE IF i > Len(b) THEN FALSE
    ELSE IF a[i] # b[i] THEN a[i] < b[i]
    ELSE StrLessFrom(a, b, i + 1)

\* Python's a < b on str: lexicographic by code point, a proper prefix first.
StrLess(a, b) == StrLessFrom(a, b, 1)

\* ------------------------------------------------------- program constants

\* Config.base_cdn_url for the repository name given on the command line.
base_cdn_url == "https://cdn.jsdelivr.net/gh/owner/repo@main/"

\* Config.icon_assets_dir, as the posix text of the path.
icon_assets_dir == "icons/assets/"

\* MIME_TO_EXT.get(mime_type): the extension, or None.
MIME_TO_EXT(m) ==
    CASE m = <<"image/png">> -> Some("png")
      [] m = <<"image/jpeg">> -> Some("jpg")
      [] m = <<"image/gif">> -> Some("gif")
      [] m = <<"image/webp">> -> Some("webp")
      [] m = <<"image/svg+xml">> -> Some("svg")
      [] OTHER -> None

\* The sources load_sources_from_csv returns: two rows of config.csv, the
\* author being the text of the output file's name before its first "_".
Sources ==
    << [comment |-> "One", src_url |-> "https://one.example/icons.json",
        path |-> "icons/al_one.json", author |-> <<97, 108>>],
       [comment |-> "Two", src_url |-> "https://two.example/icons.json",
        path |-> "icons/bo_two.json", author |-> <<98, 111>>] >>

\* A config.csv whose two rows name the same output file.
SourcesSharedPath ==
    << [comment |-> "One", src_url |-> "https://one.example/icons.json",
        path |-> "icons/al_one.json", author |-> <<97, 108>>],
       [comment |-> "Two", src_url |-> "https://two.example/icons.json",
        path |-> "icons/al_one.json", author |-> <<97, 108>>] >>

\* ------------------------------------------------------ the input universe

\* Origin URLs upstream manifests refer to.
U1 == <<"https://a.example/x.png">>

U2 == <<"https://b.example/y">>

OriginUrls == {U1, U2}

\* Display names: "B", "b" (equal when lower-cased) and "a".
NameB == <<66>>

Nameb == <<98>>

Namea == <<97>>

\* A display name with a line break in it: "c\nd".
NameLines == <<99, 10, 100>>

\* Icon objects an upstream manifest may hold: name and url are options (the
\* key may be absent), tag stands for the other fields, passed through.
IconPool ==
    { [name |-> Some(NameB), url |-> Some(U1), tag |-> "t1"],
      [name |-> Some(Nameb), url |-> Some(U2), tag |-> "t2"],
      [name |-> Some(<< >>), url |-> Some(U1), tag |-> "t3"],
      [name |-> Some(Namea), url |-> None, tag |-> "t4"],
      [name |-> Some(NameLines), url |-> Some(U2), tag |-> "t5"] }

\* Upstream manifest documents: a JSON object with name, description, icons.
Manifests ==
    { [name |-> "upstream", description |-> "d", icons |-> ic] :
        ic \in SeqsUpTo(IconPool, MaxIcons) }

\* What session.get(source.src_url) ... resp.json() can come to: a network
\* failure (ConnectionError, Timeout), an HTTP error status (HTTPError from
\* raise_for_status), a body that is not JSON (JSONDecodeError), or a document.
FetchOutcomes ==
    { [kind |-> k, doc |-> None] : k \in {"neterr", "httperr", "badjson"} }
    \cup { [kind |-> "ok", doc |-> Some(m)] : m \in Manifests }

\* Downloaded bodies: three distinct images, two of them of the same size, and
\* the empty body.
Bytes1 == <<1>>

Bytes2 == <<2, 3>>

Bytes3 == <<4>>

\* Responses to the GET of an icon: status 0 stands for a network failure
\* (no response), ctype is the Content-Type header as tokens (<< >>: absent).
Responses ==
    { [status |-> 0, body |-> << >>, ctype |-> << >>],
      [status |-> 404, body |-> Bytes1, ctype |-> <<"image/png">>],
      [status |-> 200, body |-> << >>, ctype |-> <<"image/png">>],
      [status |-> 200, body |-> Bytes1, ctype |-> <<"text/html">>],
      [status |-> 200, body |-> Bytes1, ctype |-> <<"image/png">>],
      [status |-> 200, body |-> Bytes1,
       ctype |-> <<"image/jpeg", ";", " ", "charset=binary">>],
      [status |-> 200, body |-> Bytes2, ctype |-> <<" ", "image/png", " ">>],
      [status |-> 200, body |-> Bytes3, ctype |-> <<"image/png">>] }

\* ---------------------------------------------------- process_icon_entry

RECURSIVE SplitFirst(_, _, _)
\* header.split(";")[0]: the tokens before the first ";".
SplitFirst(h, sep, i) ==
    IF i > Len(h) \/ h[i] = sep THEN << >>
    ELSE <<h[i]>> \o SplitFirst(h, sep, i + 1)

RECURSIVE LStrip(_)
LStrip(h) == IF Len(h) > 0 /\ h[1] = " " THEN LStrip(Tail(h)) ELSE h

RECURSIVE RStrip(_)
RStrip(h) ==
    IF Len(h) > 0 /\ h[Len(h)] = " " THEN RStrip(SubSeq(h, 1, Len(h) - 1)) ELSE h

\* str.strip()
Strip(h) == RStrip(LStrip(h))

\* response.headers.get("Content-Type", "").split(";")[0].strip()
mime_type(resp) == Strip(SplitFirst(resp.ctype, ";", 1))

RECURSIVE DigestFrom(_, _, _)
DigestFrom(content, i, acc) ==
    IF i > Len(content) THEN acc
    ELSE DigestFrom(content, i + 1, (acc * 31 + content[i] + 1) % 65536)

\* hashlib.md5(content).hexdigest(): a digest computed from the bytes; it is
\* collision-free on the bodies of Responses, as MD5 is taken to be.
md5_hash(content) == DigestFrom(content, 1, 7)

\* new_filepath named by the last digit of the digest only.
new_filepath_ShortHash(md5, ext) == <<icon_assets_dir, md5 % 16, ".", ext>>

\* The asset file of a download: assets_dir / f"{md5_hash}.{ext}".
new_filepath(md5, ext) == <<icon_assets_dir, md5, ".", ext>>

\* Downloaded without response.raise_for_status(): an error page is stored.
Downloaded_NoStatusCheck(resp) ==
    IF resp.status = 0 THEN None
    ELSE IF Len(resp.body) = 0 THEN None
    ELSE IF IsNone(MIME_TO_EXT(mime_type(resp))) THEN None
    ELSE Some([content |-> resp.body,
               md5 |-> md5_hash(resp.body),
               size |-> Len(resp.body),
               ext |-> MIME_TO_EXT(mime_type(resp))[1]])

\* What process_icon_entry makes of a response, before it touches the asset
\* directory: None (a RequestException, an empty body, an unsupported MIME
\* type), or the data of the ProcessResult.
Downloaded(resp) ==
    IF resp.status # 200 THEN None
    ELSE IF Len(resp.body) = 0 THEN None
    ELSE IF IsNone(MIME_TO_EXT(mime_type(resp))) THEN None
    ELSE Some([content |-> resp.body,
               md5 |-> md5_hash(resp.body),
               size |-> Len(resp.body),
               ext |-> MIME_TO_EXT(mime_type(resp))[1]])

\* ------------------------------------------------- fetch_upstream_icons

\* The IconData of one icon object of a source's manifest.
IconData(icon, source) ==
    [name |-> icon.name[1], url |-> icon.url[1], author |-> source.author,
     source |-> source.comment,
     original_name |-> icon.name[1] \o <<45>> \o source.author]

RECURSIVE ExtractIcons_UrlOnly(_, _, _)
\* ExtractIcons without the test of the name: icon.get("url") alone decides.
ExtractIcons_UrlOnly(icons, source, i) ==
    IF i > Len(icons) THEN << >>
    ELSE (IF Truthy(icons[i].url)
          THEN <<IconData(icons[i], source)>> ELSE << >>)
         \o ExtractIcons_UrlOnly(icons, source, i + 1)

RECURSIVE ExtractIcons(_, _, _)
\* The loop over source_json.get("icons", []): an IconData for each icon with a
\* truthy name and a truthy url, in manifest order.
ExtractIcons(icons, source, i) ==
    IF i > Len(icons) THEN << >>
    ELSE (IF Truthy(icons[i].name) /\ Truthy(icons[i].url)
          THEN <<IconData(icons[i], source)>> ELSE << >>)
         \o ExtractIcons(icons, source, i + 1)

\* ------------------------------------------------- update_allinone_json

\* f"{config.base_cdn_url}{res.filepath.as_posix()}"
final_url(filepath) == <<base_cdn_url>> \o filepath

\* url_map after the loop over results: the last result of an origin URL wins.
UrlMap(results) ==
    [u \in { results[i].original_url : i \in DOMAIN results } |->
        LET last == CHOOSE i \in DOMAIN results :
                       /\ results[i].original_url = u
                       /\ \A j \in DOMAIN results :
                            results[j].original_url = u => j <= i
        IN  final_url(results[last].filepath)]

RECURSIVE Md5Map(_, _, _)
\* md5_map after the loop over results, as the sequence of its values in
\* insertion order (each with its key): the first result of a hash is the
\* primary and fixes url and size, every later one is appended to aliases.
Md5Map(results, i, acc) ==
    IF i > Len(results) THEN acc
    ELSE LET res == results[i]
             at == { g \in DOMAIN acc : acc[g].md5 = res.md5 }
         IN  IF at = {}
             THEN Md5Map(results, i + 1,
                         Append(acc, [md5 |-> res.md5, primary |-> res.primary,
                                      aliases |-> << >>,
                                      url |-> final_url(res.filepath),
                                      size |-> res.size]))
             ELSE LET g == CHOOSE x \in at : TRUE
                  IN  Md5Map(results, i + 1,
                             [acc EXCEPT ![g].aliases = Append(@, res.primary)])

RECURSIVE Join(_, _)
\* sep.join(strs)
Join(strs, sep) ==
    IF Len(strs) = 0 THEN << >>
    ELSE IF Len(strs) = 1 THEN strs[1]
    ELSE strs[1] \o sep \o Join(Tail(strs), sep)

\* Description without the alias clause: the aliases are dropped.
Description_SourceOnly(data) == <<"source: ", data.primary.source>>

\* The description of a catalog entry: the source label of the primary, then
\* (only with aliases) the alias clause joining the original names by ", ".
Description(data) ==
    <<"source: ", data.primary.source>>
    \o (IF Len(data.aliases) > 0
        THEN <<" | aliases: ",
               Join([j \in DOMAIN data.aliases |-> data.aliases[j].original_name],
                    <<44, 32>>)>>
        ELSE << >>)

\* new_normalized_icons: one entry per value of md5_map, in its order.
NewNormalizedIcons(results) ==
    LET md5_map == Md5Map(results, 1, << >>)
    IN  [g \in DOMAIN md5_map |->
            [md5 |-> md5_map[g].md5, name |-> md5_map[g].primary.name,
             url |-> md5_map[g].url, size |-> md5_map[g].size,
             description |-> Description(md5_map[g])]]

\* old_icons: the "icons" of the catalog file when it exists, is not empty and
\* parses; [] when it is missing, empty or raises JSONDecodeError.
OldIcons(file) == IF file.kind = "catalog" THEN file.icons ELSE << >>

RECURSIVE DictUpdate_AppendAlways(_, _, _)
\* DictUpdate as a list that is appended to, whatever the url.
DictUpdate_AppendAlways(d, icons, i) ==
    IF i > Len(icons) THEN d
    ELSE DictUpdate_AppendAlways(Append(d, icons[i]), icons, i + 1)

RECURSIVE DictUpdate(_, _, _)
\* dict.update / a dict comprehension keyed by url, over a dict kept as the
\* sequence of its values in insertion order: a key already present keeps its
\* place and takes the new value, a new key goes to the end.
DictUpdate(d, icons, i) ==
    IF i > Len(icons) THEN d
    ELSE LET at == { x \in DOMAIN d : d[x].url = icons[i].url }
         IN  IF at = {} THEN DictUpdate(Append(d, icons[i]), icons, i + 1)
             ELSE DictUpdate([d EXCEPT ![CHOOSE x \in at : TRUE] = icons[i]],
                             icons, i + 1)

\* all_icons_map.values() after seeding with old_icons and updating with the new.
AllIconsMap(old_icons, new_icons) ==
    DictUpdate(DictUpdate(<< >>, old_icons, 1), new_icons, 1)

\* KeyLess without .lower(): names compared case-sensitively.
KeyLess_CaseSensitive(x, y) ==
    \/ StrLess(x.name, y.name)
    \/ /\ x.name = y.name
       /\ (0 - x.size) < (0 - y.size)

\* The sort key (x['name'].lower(), -x.get('size', 0)) compared as tuples.
KeyLess(x, y) ==
    \/ StrLess(Lower(x.name), Lower(y.name))
    \/ /\ Lower(x.name) = Lower(y.name)
       /\ (0 - x.size) < (0 - y.size)

RECURSIVE InsertSorted(_, _, _)
\* x placed after every element that does not come after it (stable).
InsertSorted(s, x, i) ==
    IF i > Len(s) THEN Append(s, x)
    ELSE IF KeyLess(x, s[i])
         THEN SubSeq(s, 1, i - 1) \o <<x>> \o SubSeq(s, i, Len(s))
         ELSE InsertSorted(s, x, i + 1)

RECURSIVE SortedFrom(_, _, _)
SortedFrom(s, i, acc) ==
    IF i > Len(s) THEN acc
    ELSE SortedFrom(s, i + 1, InsertSorted(acc, s[i], 1))

\* sorted(all_icons_map.values(), key=...): a stable sort by KeyLess.
final_icons_list(old_icons, new_icons) ==
    SortedFrom(AllIconsMap(old_icons, new_icons), 1, << >>)

\* old_urls: {icon['url'] for icon in old_icons}
OldUrls(old_icons) == { old_icons[i].url : i \in DOMAIN old_icons }

\* CountGrew with >= for >: a run that adds nothing rewrites the catalog.
CountGrew_OrEqual(old_icons, final) == Len(final) >= Len(old_icons)

\* The test that guards the update of the catalog: final_count > old_count.
CountGrew(old_icons, final) == Len(final) > Len(old_icons)

\* newly_added: [] unless final_count > old_count, and then the entries of the
\* final list whose url is not in old_urls, in the final list's order.
NewlyAdded(old_icons, final) ==
    IF CountGrew(old_icons, final)
    THEN SelectIdx(final,
                   [i \in DOMAIN final |-> final[i].url \notin OldUrls(old_icons)],
                   1)
    ELSE << >>

RECURSIVE SortedStrs(_)
\* sorted(a set of str)
SortedStrs(S) ==
    IF S = {} THEN << >>
    ELSE LET m == CHOOSE x \in S : \A y \in S \ {x} : StrLess(x, y)
         IN  <<m>> \o SortedStrs(S \ {m})

\* all_authors: ", ".join(sorted(list(set(s.author for s in sources))))
all_authors(srcs) ==
    Join(SortedStrs({ srcs[i].author : i \in DOMAIN srcs }), <<44, 32>>)

\* final_json, the document json.dumps writes to the catalog file.
final_json(srcs, final) ==
    [kind |-> "catalog", name |-> "Emby Icons",
     description |-> <<all_authors(srcs), Len(final)>>, icons |-> final]

\* The code point of the hexadecimal digit d: '0'..'9', 'a'..'f'.
HexDigit(d) == IF d < 10 THEN 48 + d ELSE 87 + d

\* The text of a digest, as hexdigest() gives it: its hexadecimal digits.
HexText(md5) ==
    <<HexDigit(md5 \div 4096), HexDigit((md5 \div 256) % 16),
      HexDigit((md5 \div 16) % 16), HexDigit(md5 % 16)>>

\* log_lines, one str per added entry: f'"{icon["md5"]}": {icon["name"]}', as
\* code points ('"' is 34, ':' 58, ' ' 32).
LogLines(added) ==
    [i \in DOMAIN added |->
        <<34>> \o HexText(added[i].md5) \o <<34, 58, 32>> \o added[i].name]

\* The text written to the change log: "\n".join(log_lines).
LogText(added) == Join(LogLines(added), <<10>>)

\* -------------------------------------------- rewrite_source_json_files

\* MapGet as url_map.get(url), without the default: an unmapped url is lost.
MapGet_NoDefault(map, url) == IF url \in DOMAIN map THEN map[url] ELSE None

\* url_map.get(url, url)
MapGet(map, url) == IF url \in DOMAIN map THEN map[url] ELSE url

RECURSIVE RewriteIcons(_, _, _)
\* The list comprehension over content.get("icons", []): the icons with a
\* truthy url, in order, each with its url replaced through the url map.
RewriteIcons(icons, map, i) ==
    IF i > Len(icons) THEN << >>
    ELSE (IF Truthy(icons[i].url)
          THEN <<[icons[i] EXCEPT !.url = Some(MapGet(map, icons[i].url[1]))]>>
          ELSE << >>)
         \o RewriteIcons(icons, map, i + 1)

\* The document written to source.path.
Rewritten(source, source_json, map) ==
    [name |-> <<source.comment, " (CDN mirror)">>,
     description |-> <<"from: ", source.src_url>>,
     icons |-> RewriteIcons(source_json.icons, map, 1)]

\* ------------------------------------------------------------ the state

VARIABLES
    sources,            \* the SourceConfig list of config.csv
    upstream,           \* per source: what its manifest URL serves, once asked
    net,                \* per origin URL: the response it serves, once asked
    pc,                 \* where main() is
    run,                \* number of runs of main() started
    idx,                \* the source the loop of fetch_upstream_icons is at
    all_icons_to_process,
    source_jsons,       \* source.path -> the raw manifest (an option)
    wstate,             \* per submitted icon: where its worker is
    results,            \* the list process_icons_concurrently collects
    assets,             \* the files of icon_assets_dir
    writes,             \* per content hash: the write_bytes calls so far
    allinone,           \* the catalog file config.all_in_one_json
    catalog_writes,     \* write_text calls on the catalog file in this run
    prior,              \* the catalog file as this run found it
    update_log,         \* the change log config.update_log_file (an option)
    url_map,            \* returned by update_allinone_json
    newly_added,        \* returned by update_allinone_json
    outputs             \* path -> the rewritten manifest on disk (an option)

vars ==
    <<sources, upstream, net, pc, run, idx, all_icons_to_process, source_jsons,
      wstate, results, assets, writes, allinone, catalog_writes, prior,
      update_log, url_map, newly_added, outputs>>

Paths(srcs) == { srcs[i].path : i \in DOMAIN srcs }

\* The content hashes of the bodies a download can return.
Digests == { md5_hash(r.body) : r \in { x \in Responses : Len(x.body) > 0 } }

\* ------------------------------------------- catalog files found on disk

\* The canonical URL of the asset of hash h and extension ext.
CanonicalUrl(h, ext) == final_url(new_filepath(h, ext))

\* Entries earlier runs wrote: one of an image upstream no longer lists, one of
\* the image Bytes1 served as PNG.
PriorPool ==
    { [md5 |-> 9999, name |-> Namea, url |-> CanonicalUrl(9999, "png"),
       size |-> 3, description |-> <<"source: ", "Old">>],
      [md5 |-> md5_hash(Bytes1), name |-> Nameb,
       url |-> CanonicalUrl(md5_hash(Bytes1), "png"),
       size |-> Len(Bytes1), description |-> <<"source: ", "Two">>] }

\* What the catalog file can hold before a run: nothing (no file), zero bytes,
\* text that is not JSON, JSON that is not an object, or a catalog document
\* (whose icons, edited by hand or merged by git, may be unsorted or repeat a
\* url).
PriorFiles ==
    { [kind |-> k, name |-> "", description |-> << >>, icons |-> << >>] :
        k \in {"missing", "empty", "corrupt", "notobject"} }
    \cup { [kind |-> "catalog", name |-> "Emby Icons",
            description |-> <<all_authors(Sources), Len(ic)>>, icons |-> ic] :
           ic \in SeqsUpTo(PriorPool, MaxPrior) }

\* ------------------------------------------------------------- actions

\* Before the first run, with srcs the rows of config.csv: no asset, no change
\* log, no rewritten manifest, and any of the catalog files above.
InitWith(srcs) ==
    /\ sources = srcs
    /\ upstream = [i \in DOMAIN srcs |-> None]
    /\ net = [u \in OriginUrls |-> None]
    /\ pc = "idle"
    /\ run = 0
    /\ idx = 0
    /\ all_icons_to_process = << >>
    /\ source_jsons = [p \in Paths(srcs) |-> None]
    /\ wstate = << >>
    /\ results = << >>
    /\ assets = {}
    /\ writes = [h \in Digests |-> 0]
    /\ allinone \in PriorFiles
    /\ catalog_writes = 0
    /\ prior = allinone
    /\ update_log = None
    /\ url_map = << >>
    /\ newly_added = << >>
    /\ outputs = [p \in Paths(srcs) |-> None]

Init == InitWith(Sources)

\* main() up to the call of fetch_upstream_icons: setup_environment unlinks the
\* change log, load_sources_from_csv reads the sources.
StartRun ==
    /\ pc \in {"idle", "done", "aborted"}
    /\ run < MaxRuns
    /\ run' = run + 1
    /\ pc' = "fetch"
    /\ idx' = 1
    /\ all_icons_to_process' = << >>
    /\ source_jsons' = [p \in Paths(sources) |-> None]
    /\ wstate' = << >>
    /\ results' = << >>
    /\ url_map' = << >>
    /\ newly_added' = << >>
    /\ update_log' = None
    /\ catalog_writes' = 0
    /\ prior' = allinone
    /\ UNCHANGED <<sources, upstream, net, assets, writes, allinone, outputs>>

RECURSIVE Listed(_, _)
\* The number of icon objects the manifests of the first k sources list.
Listed(up, k) ==
    IF k = 0 THEN 0
    ELSE Listed(up, k - 1)
         + (IF IsNone(up[k]) \/ IsNone(up[k][1]) THEN 0 ELSE Len(up[k][1][1].icons))

\* One iteration of the loop of fetch_upstream_icons, for sources[idx]; after
\* the last one process_icons_concurrently submits every icon to the pool.
FetchSource ==
    /\ pc = "fetch"
    /\ idx <= Len(sources)
    /\ \E o \in FetchOutcomes :
         /\ IsNone(upstream[idx]) \/ upstream[idx] = Some(o.doc)
         /\ upstream' = [upstream EXCEPT ![idx] = Some(o.doc)]
         /\ IF o.kind = "ok"
            THEN /\ source_jsons' =
                      [source_jsons EXCEPT ![sources[idx].path] = o.doc]
                 /\ all_icons_to_process' =
                      all_icons_to_process
                      \o ExtractIcons(o.doc[1].icons, sources[idx], 1)
            ELSE UNCHANGED <<source_jsons, all_icons_to_process>>
    /\ Len(all_icons_to_process') <= MaxEntries
    /\ Listed(upstream', Len(sources)) <= MaxListed
    /\ idx' = idx + 1
    /\ IF idx = Len(sources)
       THEN /\ pc' = "download"
            /\ wstate' = [i \in DOMAIN all_icons_to_process' |-> "todo"]
       ELSE UNCHANGED <<pc, wstate>>
    /\ UNCHANGED <<sources, net, run, results, assets, writes, allinone,
                   catalog_writes, prior, update_log, url_map, newly_added,
                   outputs>>

\* The ProcessResult of icon i for the downloaded data d.
ProcessResult(i, d) ==
    [primary |-> all_icons_to_process[i], md5 |-> d.md5, size |-> d.size,
     filepath |-> new_filepath(d.md5, d.ext),
     original_url |-> all_icons_to_process[i].url]

\* new_filepath.exists()
Exists(filepath) == \E f \in assets : f.path = filepath

\* A worker runs process_icon_entry for icon i up to the test of
\* new_filepath.exists(): it returns None, or returns the result without
\* writing (the file exists), or goes on to write.  A finished worker's result
\* is appended to results by the as_completed loop.
Download(i) ==
    /\ pc = "download"
    /\ wstate[i] = "todo"
    /\ \E resp \in Responses :
         LET d == Downloaded(resp)
             url == all_icons_to_process[i].url
         IN  /\ IsNone(net[url]) \/ net[url] = Some(resp)
             /\ net' = [net EXCEPT ![url] = Some(resp)]
             /\ IF IsNone(d)
                THEN /\ wstate' = [wstate EXCEPT ![i] = "done"]
                     /\ UNCHANGED results
                ELSE IF Exists(new_filepath(d[1].md5, d[1].ext))
                THEN /\ wstate' = [wstate EXCEPT ![i] = "done"]
                     /\ results' = Append(results, ProcessResult(i, d[1]))
                ELSE /\ wstate' = [wstate EXCEPT ![i] = "write"]
                     /\ UNCHANGED results
    /\ UNCHANGED <<sources, upstream, pc, run, idx, all_icons_to_process,
                   source_jsons, assets, writes, allinone, catalog_writes,
                   prior, update_log, url_map, newly_added, outputs>>

\* The worker of icon i, having found no file, calls write_bytes and returns.
WriteAsset(i) ==
    /\ pc = "download"
    /\ wstate[i] = "write"
    /\ LET d == Downloaded(net[all_icons_to_process[i].url][1])[1]
           filepath == new_filepath(d.md5, d.ext)
       IN  /\ assets' = { f \in assets : f.path # filepath }
                        \cup {[path |-> filepath, content |-> d.content]}
           /\ writes' = [writes EXCEPT ![d.md5] = @ + 1]
           /\ results' = Append(results, ProcessResult(i, d))
    /\ wstate' = [wstate EXCEPT ![i] = "done"]
    /\ UNCHANGED <<sources, upstream, net, pc, run, idx, all_icons_to_process,
                   source_jsons, allinone, catalog_writes, prior, update_log,
                   url_map, newly_added, outputs>>

\* AllDone that is content with one completed future.
AllDone_AnyDone(ws) == Len(ws) = 0 \/ \E i \in DOMAIN ws : ws[i] = "done"

\* The loop over as_completed(futures) has come to its end and the executor's
\* with-block has been left: every submitted future has completed.
AllDone(ws) == \A i \in DOMAIN ws : ws[i] = "done"

\* update_allinone_json, called once every future has completed.  A catalog
\* file holding JSON that is not an object makes .get raise AttributeError,
\* which nothing catches: the run ends there.
UpdateAllinoneJson ==
    /\ pc = "download"
    /\ AllDone(wstate)
    /\ IF allinone.kind = "notobject"
       THEN /\ pc' = "aborted"
            /\ UNCHANGED <<idx, allinone, catalog_writes, update_log, url_map,
                           newly_added>>
       ELSE LET old_icons == OldIcons(allinone)
                final == final_icons_list(old_icons, NewNormalizedIcons(results))
                added == NewlyAdded(old_icons, final)
            IN  /\ url_map' = UrlMap(results)
                /\ newly_added' = added
                /\ IF CountGrew(old_icons, final)
                   THEN /\ update_log' = IF Len(added) > 0
                                         THEN Some(LogText(added))
                                         ELSE update_log
                        /\ allinone' = final_json(sources, final)
                        /\ catalog_writes' = catalog_writes + 1
                   ELSE UNCHANGED <<update_log, allinone, catalog_writes>>
                /\ pc' = "rewrite"
                /\ UNCHANGED idx
    /\ UNCHANGED <<sources, upstream, net, run, all_icons_to_process,
                   source_jsons, wstate, results, assets, writes, prior, outputs>>

RECURSIVE RewriteAll(_, _, _, _, _)
\* The loop of rewrite_source_json_files from sources[k] on: a source whose path
\* is not in source_jsons is skipped, the others' documents are written.
RewriteAll(srcs, k, jsons, map, files) ==
    IF k > Len(srcs) THEN files
    ELSE IF IsNone(jsons[srcs[k].path])
         THEN RewriteAll(srcs, k + 1, jsons, map, files)
         ELSE RewriteAll(srcs, k + 1, jsons, map,
                         [files EXCEPT ![srcs[k].path] =
                            Some(Rewritten(srcs[k], jsons[srcs[k].path][1], map))])

\* rewrite_source_json_files, the last step of main().
RewriteSourceJsonFiles ==
    /\ pc = "rewrite"
    /\ outputs' = RewriteAll(sources, 1, source_jsons, url_map, outputs)
    /\ pc' = "done"
    /\ UNCHANGED <<sources, upstream, net, run, idx, all_icons_to_process,
                   source_jsons, wstate, results, assets, writes, allinone,
                   catalog_writes, prior, update_log, url_map, newly_added>>

Next ==
    \/ StartRun
    \/ FetchSource
    \/ \E i \in DOMAIN wstate : Download(i)
    \/ \E i \in DOMAIN wstate : WriteAsset(i)
    \/ UpdateAllinoneJson
    \/ RewriteSourceJsonFiles

Spec == Init /\ [][Next]_vars

\* A fresh checkout: no catalog file yet.
InitFresh == Init /\ allinone.kind = "missing"

\* The pipeline from a fresh checkout under the scheduling the code relies on:
\* the pool runs every submitted task, every GET ends (timeout=20) and a write
\* to the local disk ends, so while a worker has a step to take, one is taken.
FairSpec ==
    /\ InitFresh
    /\ [][Next]_vars
    /\ WF_vars(\E i \in DOMAIN wstate : Download(i) \/ WriteAsset(i))

\* The pipeline over a config.csv whose rows share their output file.
InitSharedPath == InitWith(SourcesSharedPath)

SpecSharedPath == InitSharedPath /\ [][Next]_vars

\* ------------------------------------------------------------- properties

\* update_allinone_json has returned in the current run.
Merged == pc \in {"rewrite", "done"}

\* The URL keys of a catalog file.
Keys(file) == OldUrls(OldIcons(file))

\* The merged, sorted catalog this run's results give over the catalog found.
MergedCatalog == final_icons_list(OldIcons(prior), NewNormalizedIcons(results))

\* The entries of the merged catalog whose url no entry of the catalog found has.
SetDifference ==
    SelectIdx(MergedCatalog,
              [i \in DOMAIN MergedCatalog |-> MergedCatalog[i].url \notin Keys(prior)],
              1)

\* Some url is the key of two entries of the sequence of icons.
HasDuplicateUrl(icons) ==
    \E i, j \in DOMAIN icons : i # j /\ icons[i].url = icons[j].url

(* C1: idempotence over two runs.  The environment of a behaviour is fixed (the
   same sources, manifests, download outcomes and CDN base in every run), so
   the claim is: once the second run has merged, its added list is empty and
   the catalog file is the file the first run left, whatever the order in
   which the downloads completed. *)
C1_SecondRunAddsNothing ==
    (run = 2 /\ Merged) => (newly_added = << >> /\ allinone = prior)

(* C2: conditional persistence.  Whatever the catalog file held before the run
   (missing, empty, corrupt, duplicate urls, any catalog), when
   update_allinone_json returns an empty added list the catalog file was not
   written in this run and holds what it held before. *)
C2_EmptyAddedLeavesFile ==
    (Merged /\ newly_added = << >>) => (catalog_writes = 0 /\ allinone = prior)

\* C2's case: a run that downloaded an icon over an existing catalog and
\* returned an empty added list.
C2_Witness ==
    /\ Merged
    /\ newly_added = << >>
    /\ Len(results) > 0
    /\ prior.kind = "catalog"
    /\ Len(prior.icons) > 0

(* C3: the added list is the set difference by canonical url of the merged
   catalog and the catalog found, and whenever that difference is not empty
   the catalog file is replaced by the merged, sorted catalog. *)
C3_AddedIsSetDifference ==
    Merged =>
        /\ newly_added = SetDifference
        /\ (Len(SetDifference) > 0 =>
              allinone = final_json(sources, MergedCatalog))

(* C4: merge monotonicity.  After the merge the catalog file holds every url key
   of the catalog found and every url key of this run's new entries; an entry
   of the catalog found whose key this run did not produce is there unchanged. *)
C4_MergeKeepsUnion ==
    Merged =>
        LET new_icons == NewNormalizedIcons(results)
            new_keys == { new_icons[i].url : i \in DOMAIN new_icons }
        IN  /\ Keys(prior) \subseteq Keys(allinone)
            /\ new_keys \subseteq Keys(allinone)
            /\ \A e \in Range(OldIcons(prior)) :
                 e.url \notin new_keys => e \in Range(OldIcons(allinone))

(* C5: content addressing.  Any two results of a run with the same content hash
   have their origin urls mapped by url_map to the same canonical url, which
   is the url of the one catalog entry built for that hash. *)
C5_SameHashSameUrl ==
    Merged =>
        \A a, b \in DOMAIN results :
            results[a].md5 = results[b].md5 =>
                /\ url_map[results[a].original_url] = url_map[results[b].original_url]
                /\ \A e \in Range(NewNormalizedIcons(results)) :
                     e.md5 = results[a].md5 =>
                        e.url = url_map[results[a].original_url]

(* C6: write-once assets.  Over every interleaving of the workers and every
   sequence of runs, the bytes of one content hash are written to the asset
   directory at most once. *)
C6_WrittenAtMostOnce == \A h \in Digests : writes[h] <= 1

\* The sources fetch_upstream_icons has been through in the current run.
Visited == IF pc = "fetch" THEN idx - 1 ELSE IF pc = "idle" THEN 0 ELSE Len(sources)

\* What source k should contribute: nothing when its fetch failed, else the
\* icons of its manifest that have a non-empty name and a non-empty url, in
\* manifest order, tagged with the source.
Contribution(k) ==
    IF IsNone(upstream[k][1]) THEN << >>
    ELSE LET ic == upstream[k][1][1].icons
             kept == SelectIdx(ic,
                               [j \in DOMAIN ic |->
                                  /\ ic[j].name # None /\ ic[j].name # Some(<< >>)
                                  /\ ic[j].url # None /\ ic[j].url # Some(<< >>)],
                               1)
         IN  [j \in DOMAIN kept |->
                [name |-> kept[j].name[1], url |-> kept[j].url[1],
                 author |-> sources[k].author, source |-> sources[k].comment,
                 original_name |-> kept[j].name[1] \o <<45>> \o sources[k].author]]

RECURSIVE Contributions(_)
Contributions(n) == IF n = 0 THEN << >> ELSE Contributions(n - 1) \o Contribution(n)

(* C7: per-source failure isolation.  Whatever each source's fetch came to, the
   fetcher goes through every source; the icon list is, source after source,
   nothing for a failed source and for a fetched one exactly its icons with a
   non-empty name and url in manifest order; the raw manifest kept for a path
   is that of the last fetched source with that path, none if every fetch for
   it failed. *)
C7_FetchIsolation ==
    /\ \A k \in 1..Visited : ~IsNone(upstream[k])
    /\ all_icons_to_process = Contributions(Visited)
    /\ \A p \in Paths(sources) :
         LET ok == { k \in 1..Visited :
                       sources[k].path = p /\ ~IsNone(upstream[k][1]) }
         IN  IF ok = {} THEN source_jsons[p] = None
             ELSE source_jsons[p] =
                    upstream[CHOOSE k \in ok : \A j \in ok : j <= k][1]

\* C7's case: the first source failed, the second was still fetched, and of its
\* two icons the one without a usable name was left out.
C7_Witness ==
    /\ pc = "download"
    /\ IsNone(upstream[1][1])
    /\ ~IsNone(upstream[2][1])
    /\ Len(upstream[2][1][1].icons) = 2
    /\ \E j \in 1..2 : upstream[2][1][1].icons[j].name = Some(<< >>)
    /\ Len(all_icons_to_process) = 1

\* The media types of the allow-list.
AllowList ==
    { <<"image/png">>, <<"image/jpeg">>, <<"image/gif">>, <<"image/webp">>,
      <<"image/svg+xml">> }

\* A download that ends in a network failure or an HTTP error status, an empty
\* body, or a content type outside the allow-list.
Fails(resp) ==
    \/ resp.status # 200
    \/ Len(resp.body) = 0
    \/ mime_type(resp) \notin AllowList

\* The submitted icons whose worker has finished with a usable download.
OkEntries ==
    { i \in DOMAIN wstate :
        wstate[i] = "done" /\ ~Fails(net[all_icons_to_process[i].url][1]) }

\* The submitted icons whose download failed.
FailedEntries ==
    { i \in DOMAIN wstate :
        wstate[i] = "done" /\ Fails(net[all_icons_to_process[i].url][1]) }

\* Entry e is built from usable downloads only: its hash, size and url are
\* those of icon i's download, its name is icon i's, and its description names
\* icon i's source and, as aliases, only icons with a usable download of the
\* same bytes.
BuiltFromOk(e) ==
    \E i \in OkEntries :
        LET icon == all_icons_to_process[i]
            resp == net[icon.url][1]
            same == { all_icons_to_process[j] :
                        j \in { x \in OkEntries :
                                  net[all_icons_to_process[x].url][1].body = resp.body } }
        IN  /\ e.md5 = md5_hash(resp.body)
            /\ e.size = Len(resp.body)
            /\ e.name = icon.name
            /\ e.url = CanonicalUrl(md5_hash(resp.body),
                                    MIME_TO_EXT(mime_type(resp))[1])
            /\ \E al \in SeqsUpTo(same, Len(all_icons_to_process)) :
                 e.description = Description([primary |-> icon, aliases |-> al])

(* C8: per-icon failure isolation.  An icon whose download failed gives no
   result, no asset file, no key of url_map and no entry or alias of the
   catalog; every other icon is processed, and gives exactly the result of
   its own download. *)
C8_IconIsolation ==
    /\ \A i \in DOMAIN wstate :
         wstate[i] = "done" =>
           Cardinality({ j \in DOMAIN results :
                           results[j].primary = all_icons_to_process[i] })
           = Cardinality({ j \in OkEntries :
                             all_icons_to_process[j] = all_icons_to_process[i] })
    /\ \A j \in DOMAIN results :
         LET resp == net[results[j].original_url][1]
         IN  /\ ~Fails(resp)
             /\ results[j].primary.url = results[j].original_url
             /\ results[j].md5 = md5_hash(resp.body)
             /\ results[j].size = Len(resp.body)
             /\ results[j].filepath =
                  new_filepath(md5_hash(resp.body), MIME_TO_EXT(mime_type(resp))[1])
    /\ \A f \in assets :
         \E u \in OriginUrls :
            /\ ~IsNone(net[u])
            /\ ~Fails(net[u][1])
            /\ f.content = net[u][1].body
            /\ f.path = new_filepath(md5_hash(net[u][1].body),
                                     MIME_TO_EXT(mime_type(net[u][1]))[1])
    /\ Merged =>
         /\ \A i \in DOMAIN wstate : wstate[i] = "done"
         /\ DOMAIN url_map = { all_icons_to_process[i].url : i \in OkEntries }
         /\ \A i \in FailedEntries : all_icons_to_process[i].url \notin DOMAIN url_map
         /\ catalog_writes > 0 =>
              \A e \in Range(allinone.icons) :
                 e \in Range(OldIcons(prior)) \/ BuiltFromOk(e)

\* C8's case: a run in which one download failed and another succeeded has
\* merged and written the catalog.
C8_Witness ==
    /\ Merged
    /\ FailedEntries # {}
    /\ OkEntries # {}
    /\ catalog_writes > 0

\* The icons of a manifest that have a truthy url, in order.
WithUrl(icons) == SelectIdx(icons, [j \in DOMAIN icons |-> Truthy(icons[j].url)], 1)

\* The source whose raw manifest rewrite_source_json_files finds under path p.
RewrittenPaths == { p \in Paths(sources) : ~IsNone(source_jsons[p]) }

(* C9 as claimed: the rewritten document has exactly the icon entries of the
   manifest, none dropped, in order, the non-url fields unchanged, the url
   mapped through url_map when it has a mapping and the original otherwise. *)
C9_RewriteKeepsEveryEntry ==
    pc = "done" =>
        \A p \in RewrittenPaths :
            LET orig == source_jsons[p][1].icons
            IN  /\ ~IsNone(outputs[p])
                /\ Len(outputs[p][1].icons) = Len(orig)
                /\ \A j \in DOMAIN orig :
                     /\ outputs[p][1].icons[j].name = orig[j].name
                     /\ outputs[p][1].icons[j].tag = orig[j].tag
                     /\ outputs[p][1].icons[j].url =
                          IF Truthy(orig[j].url) /\ orig[j].url[1] \in DOMAIN url_map
                          THEN Some(url_map[orig[j].url[1]])
                          ELSE orig[j].url

(* C9 as amended: the rewritten document has exactly the icon entries of the
   manifest that have a non-empty url, in order, the non-url fields
   unchanged, the url mapped through url_map when it has a mapping and the
   original otherwise; entries whose url is missing or empty are left out. *)
C9_RewriteKeepsUrlEntries ==
    pc = "done" =>
        \A p \in RewrittenPaths :
            LET kept == WithUrl(source_jsons[p][1].icons)
            IN  /\ ~IsNone(outputs[p])
                /\ Len(outputs[p][1].icons) = Len(kept)
                /\ \A j \in DOMAIN kept :
                     /\ outputs[p][1].icons[j].name = kept[j].name
                     /\ outputs[p][1].icons[j].tag = kept[j].tag
                     /\ outputs[p][1].icons[j].url =
                          IF kept[j].url[1] \in DOMAIN url_map
                          THEN Some(url_map[kept[j].url[1]])
                          ELSE kept[j].url

\* C9's case: the rewritten manifests hold an icon without url (left out), an
\* icon whose url is mapped, and an icon whose download failed (url kept).
C9_Witness ==
    /\ pc = "done"
    /\ \E p \in RewrittenPaths :
         \E j \in DOMAIN source_jsons[p][1].icons :
            ~Truthy(source_jsons[p][1].icons[j].url)
    /\ \E p \in RewrittenPaths :
         \E j \in DOMAIN source_jsons[p][1].icons :
            /\ Truthy(source_jsons[p][1].icons[j].url)
            /\ source_jsons[p][1].icons[j].url[1] \in DOMAIN url_map
    /\ \E p \in RewrittenPaths :
         \E j \in DOMAIN source_jsons[p][1].icons :
            /\ Truthy(source_jsons[p][1].icons[j].url)
            /\ source_jsons[p][1].icons[j].url[1] \notin DOMAIN url_map

\* Consecutive entries are in order: lower-cased names ascending, and for equal
\* lower-cased names the sizes descending.
IsSorted(icons) ==
    \A i \in 1..(Len(icons) - 1) :
        /\ ~StrLess(Lower(icons[i + 1].name), Lower(icons[i].name))
        /\ Lower(icons[i].name) = Lower(icons[i + 1].name) =>
             icons[i].size >= icons[i + 1].size

(* C10: every catalog the pipeline writes is sorted by (lower-cased name
   ascending, size descending); and a run that finds a sorted (or no) catalog
   leaves a sorted one, so that from an absent catalog the file is sorted
   after any sequence of runs. *)
C10_CatalogSorted ==
    /\ catalog_writes > 0 => IsSorted(allinone.icons)
    /\ IsSorted(OldIcons(prior)) => IsSorted(OldIcons(allinone))

\* C10's case: a written catalog in which two neighbours have the same
\* lower-cased name and different sizes, and two others different names.
C10_Witness ==
    /\ catalog_writes > 0
    /\ \E i \in 1..(Len(allinone.icons) - 1) :
         /\ Lower(allinone.icons[i].name) = Lower(allinone.icons[i + 1].name)
         /\ allinone.icons[i].size > allinone.icons[i + 1].size
    /\ \E i \in 1..(Len(allinone.icons) - 1) :
         StrLess(Lower(allinone.icons[i].name), Lower(allinone.icons[i + 1].name))

\* The orders a sequence can come in.
PermsOf(s) ==
    IF Len(s) = 0 THEN { << >> }
    ELSE { [i \in DOMAIN s |-> s[p[i]]] : p \in Permutations(DOMAIN s) }

(* C11: catalog ordering is a function of the set of entries.  For every other
   order of the entries of the catalog found and every other completion order
   of this run's downloads, if the merge ends with the same set of entries it
   ends with the same sequence. *)
C11_OrderIsFunctionOfSet ==
    Merged =>
        \A po \in PermsOf(OldIcons(prior)), pr \in PermsOf(results) :
            LET other == final_icons_list(po, NewNormalizedIcons(pr))
            IN  Range(other) = Range(MergedCatalog) => other = MergedCatalog

\* No two entries of the sequence have the same lower-cased name and size.
NoTies(icons) ==
    \A i, j \in DOMAIN icons :
        (i # j /\ icons[i] # icons[j]) =>
            ~(/\ Lower(icons[i].name) = Lower(icons[j].name)
              /\ icons[i].size = icons[j].size)

\* a is a run of consecutive elements of b.
IsInfix(a, b) ==
    \E k \in 0..(Len(b) - Len(a)) : SubSeq(b, k + 1, k + Len(a)) = a

\* Pairs of submitted icons of scenario A: listed by two sources under
\* different origin urls, both downloaded, with the same bytes.
ScenarioA ==
    { <<i, j>> \in OkEntries \X OkEntries :
        /\ all_icons_to_process[i].source # all_icons_to_process[j].source
        /\ all_icons_to_process[i].url # all_icons_to_process[j].url
        /\ net[all_icons_to_process[i].url][1].body
             = net[all_icons_to_process[j].url][1].body }

\* Entry e has an alias clause, which names icon i or icon j, and whichever of
\* the two it does not name is the primary of e.
AliasClauseFor(e, i, j) ==
    /\ Len(e.description) = 4
    /\ e.description[3] = " | aliases: "
    /\ \E a \in {i, j} :
         IsInfix(all_icons_to_process[a].original_name, e.description[4])
    /\ \A a \in {i, j} :
         \/ IsInfix(all_icons_to_process[a].original_name, e.description[4])
         \/ /\ e.name = all_icons_to_process[a].name
            /\ e.description[2] = all_icons_to_process[a].source

\* The entries of a catalog file with content hash h.
WithHash(file, h) ==
    { k \in DOMAIN OldIcons(file) : OldIcons(file)[k].md5 = h }

(* C12 as claimed: in scenario A, for any catalog found, the persisted catalog
   holds exactly one entry with the shared content hash, and its description
   has an alias clause naming the non-primary icon. *)
C12_OneEntryWithAlias ==
    Merged =>
        \A pair \in ScenarioA :
            LET h == md5_hash(net[all_icons_to_process[pair[1]].url][1].body)
            IN  /\ Cardinality(WithHash(allinone, h)) = 1
                /\ \A k \in WithHash(allinone, h) :
                     AliasClauseFor(OldIcons(allinone)[k], pair[1], pair[2])

(* C12 as amended: in scenario A, when the run's added list is not empty the
   persisted catalog holds an entry with the shared content hash whose
   description has an alias clause naming the non-primary icon, and it is the
   only entry with that hash if the catalog found had none; when the added
   list is empty the catalog file is as it was found. *)
C12_AliasWhenAdded ==
    Merged =>
        \A pair \in ScenarioA :
            LET h == md5_hash(net[all_icons_to_process[pair[1]].url][1].body)
            IN  IF Len(newly_added) > 0
                THEN /\ \E k \in WithHash(allinone, h) :
                          AliasClauseFor(OldIcons(allinone)[k], pair[1], pair[2])
                     /\ WithHash(prior, h) = {} =>
                          Cardinality(WithHash(allinone, h)) = 1
                ELSE allinone = prior

\* C12's case: scenario A over a catalog that already had entries, with a
\* non-empty added list.
C12_Witness ==
    /\ Merged
    /\ ScenarioA # {}
    /\ Len(newly_added) > 0
    /\ Len(OldIcons(prior)) > 0

RECURSIVE SplitLines(_, _, _)
\* The lines of a text: its pieces between line breaks (code point 10), cur
\* being the line read so far.
SplitLines(text, i, cur) ==
    IF i > Len(text) THEN <<cur>>
    ELSE IF text[i] = 10 THEN <<cur>> \o SplitLines(text, i + 1, << >>)
    ELSE SplitLines(text, i + 1, Append(cur, text[i]))

\* A run of main() has ended, by returning or by an uncaught exception.
RunEnded == pc \in {"done", "aborted"}

(* C13: after every run the change log exists exactly when the run's added list
   is not empty, and then its lines are, in the order of the added list, one
   line "<content_hash>": <display_name> per added entry; so a log an earlier
   run left is gone after a run that added nothing. *)
C13_LogIsOneLinePerAdded ==
    RunEnded =>
        /\ IsNone(update_log) <=> Len(newly_added) = 0
        /\ Len(newly_added) > 0 =>
             SplitLines(update_log[1], 1, << >>)
               = [i \in DOMAIN newly_added |->
                    <<34>> \o HexText(newly_added[i].md5) \o <<34, 58, 32>>
                    \o newly_added[i].name]

\* No display name of the added list holds a line break.
NoLineBreakAdded ==
    \A i \in DOMAIN newly_added : 10 \notin Range(newly_added[i].name)

(* C14: prior-catalog tolerance.  When the catalog file found is missing, empty
   or not parseable as a catalog document, the run is not aborted and the
   merge does what it does over an empty catalog: the added list holds every
   entry built this run, sorted, and if there is one the file is replaced by
   the catalog of exactly these entries, else it is left alone. *)
C14_PriorTolerance ==
    /\ pc # "aborted"
    /\ (Merged /\ prior.kind # "catalog") =>
          /\ Range(newly_added) = Range(NewNormalizedIcons(results))
          /\ Len(newly_added) = Len(NewNormalizedIcons(results))
          /\ IsSorted(newly_added)
          /\ IF Len(newly_added) > 0
             THEN /\ allinone.kind = "catalog"
                  /\ allinone.icons = newly_added
             ELSE allinone = prior

\* The submitted icons with a usable download of content hash h, in the order
\* of their submission.
GroupOf(h) ==
    SelectIdx(all_icons_to_process,
              [i \in DOMAIN all_icons_to_process |->
                 /\ i \in OkEntries
                 /\ md5_hash(net[all_icons_to_process[i].url][1].body) = h],
              1)

(* C15: primary and aliases do not depend on download timing.  Whatever the
   completion order, the entry built for a content hash has the name of the
   first submitted icon of that hash, and its description names that icon's
   source and, as aliases, the other icons of the hash in submission order. *)
C15_PrimaryIsFirstSubmitted ==
    Merged =>
        \A e \in Range(NewNormalizedIcons(results)) :
            /\ e.name = GroupOf(e.md5)[1].name
            /\ e.description =
                 Description([primary |-> GroupOf(e.md5)[1],
                              aliases |-> Tail(GroupOf(e.md5))])

\* The downloads completed in the order of their submission.
CompletedInSubmissionOrder ==
    [j \in DOMAIN results |-> results[j].primary]
      = SelectIdx(all_icons_to_process,
                  [i \in DOMAIN all_icons_to_process |-> i \in OkEntries], 1)

\* The sources of output path p whose manifest was fetched in this run.
FetchedFor(p) ==
    { k \in DOMAIN sources : sources[k].path = p /\ ~IsNone(upstream[k][1]) }

(* C16: rewriting touches only fetched sources.  When rewrite_source_json_files
   runs, an output path none of whose sources was fetched keeps its file, and
   an output path with a fetched source ends with the document of a fetched
   source of that path (the last one), made from that source's own manifest
   and labels. *)
C16_RewriteOnlyFetched ==
    [][(pc = "rewrite" /\ pc' = "done") =>
         \A p \in Paths(sources) :
            IF FetchedFor(p) = {} THEN outputs'[p] = outputs[p]
            ELSE LET k == CHOOSE x \in FetchedFor(p) :
                             \A y \in FetchedFor(p) : y <= x
                 IN  outputs'[p] =
                       Some(Rewritten(sources[k], upstream[k][1][1], url_map))]_vars

\* The result list holds one result for each usable download and none for a
\* failed one.
OneResultPerDownload ==
    /\ Len(results) = Cardinality(OkEntries)
    /\ \A i \in OkEntries :
         Cardinality({ j \in DOMAIN results :
                         results[j].primary = all_icons_to_process[i] })
         = Cardinality({ j \in OkEntries :
                           all_icons_to_process[j] = all_icons_to_process[i] })
    /\ \A i \in FailedEntries :
         \A j \in DOMAIN results :
            results[j].original_url # all_icons_to_process[i].url

(* C17: complete collection before merge.  Under fair scheduling the download
   phase always comes to the point where every submitted download has
   finished (process_icons_concurrently returns); the step that leaves the
   phase (the start of the merge) is taken only at that point, and the result
   list then holds exactly one result per usable download and none for a
   failed one. *)
C17_CompleteCollection ==
    /\ [][(pc = "download" /\ pc' # "download") =>
            /\ \A i \in DOMAIN wstate : wstate[i] = "done"
            /\ OneResultPerDownload]_vars
    /\ (pc = "download") ~> (\A i \in DOMAIN wstate : wstate[i] = "done")

\* C17's case: the merge has started after two downloads, the first of them
\* failed and the second usable.
C17_Witness ==
    /\ Merged
    /\ Len(all_icons_to_process) = 2
    /\ OkEntries = {2}
    /\ FailedEntries = {1}

(* C18: cross-reference consistency.  At the end of a run every canonical url
   that url_map maps an origin url to is the url of an entry of the persisted
   catalog and is the url of a file of the asset directory. *)
C18_MappedUrlsInCatalog ==
    pc = "done" =>
        \A u \in DOMAIN url_map :
            /\ url_map[u] \in Keys(allinone)
            /\ \E f \in assets : final_url(f.path) = url_map[u]

(* C19: unique url keys.  A catalog the pipeline writes has no url twice, and a
   run that finds a catalog without a repeated url (or none: a missing, empty
   or corrupt file) leaves one; the merged list then has as many entries as
   distinct urls. *)
C19_UniqueUrlKeys ==
    /\ catalog_writes > 0 => ~HasDuplicateUrl(allinone.icons)
    /\ ~HasDuplicateUrl(OldIcons(prior)) =>
          /\ ~HasDuplicateUrl(OldIcons(allinone))
          /\ Merged =>
               Len(MergedCatalog)
                 = Cardinality({ MergedCatalog[i].url : i \in DOMAIN MergedCatalog })

\* C19's case: a run over a catalog without a repeated url has built an entry
\* for a url the catalog had, and has written the catalog.
C19_Witness ==
    /\ Merged
    /\ catalog_writes > 0
    /\ Len(OldIcons(prior)) > 0
    /\ ~HasDuplicateUrl(OldIcons(prior))
    /\ \E e \in Range(NewNormalizedIcons(results)) : e.url \in Keys(prior)

\* The extensions of MIME_TO_EXT.
Extensions == {"png", "jpg", "gif", "webp", "svg"}

\* Every file of the asset directory is named by the digest of the bytes it
\* holds and one of the extensions.
AssetsWellNamed ==
    \A f \in assets :
        \E e \in Extensions :
            f.path = <<"icons/assets/", md5_hash(f.content), ".", e>>

(* C20: asset store integrity.  From an empty asset directory, every file of
   the directory is always named {hash}.{ext}, hash being the content hash of
   the bytes it holds and ext one of png, jpg, gif, webp, svg; and no step
   deletes a file or changes its content. *)
C20_AssetStoreIntegrity ==
    /\ []AssetsWellNamed
    /\ [][\A f \in assets : f \in assets']_vars

\* C20's case: in a second run, with two files in the directory, a worker has
\* found its file present and returned a result without writing.
C20_Witness ==
    /\ run = 2
    /\ Cardinality(assets) = 2
    /\ \E j \in DOMAIN results : writes[results[j].md5] = 1
    /\ Merged

\* ------------------------------------------------- supporting properties

\* In this behaviour's environment, downloads with the same bytes are all served
\* under content types of the same extension.
OneExtPerHash ==
    \A u, v \in OriginUrls :
        (/\ ~IsNone(net[u]) /\ ~IsNone(net[v])
         /\ ~IsNone(Downloaded(net[u][1])) /\ ~IsNone(Downloaded(net[v][1]))
         /\ Downloaded(net[u][1])[1].md5 = Downloaded(net[v][1])[1].md5)
        => Downloaded(net[u][1])[1].ext = Downloaded(net[v][1])[1].ext

\* Idempotence over two runs holds wherever equal bytes come with one extension.
IdempotentWithOneExtPerHash == OneExtPerHash => C1_SecondRunAddsNothing

\* Content addressing holds wherever equal bytes come with one extension.
SameUrlWithOneExtPerHash == OneExtPerHash => C5_SameHashSameUrl

\* The added list is the set difference wherever the catalog found has no url
\* twice.
SetDifferenceWithoutDuplicates ==
    ~HasDuplicateUrl(OldIcons(prior)) => C3_AddedIsSetDifference

\* The merge keeps the union wherever the catalog found has no url twice.
UnionWithoutDuplicates ==
    ~HasDuplicateUrl(OldIcons(prior)) => C4_MergeKeepsUnion

\* The order of the catalog is a function of its set of entries wherever no two
\* entries have the same lower-cased name and the same size.
OrderIsFunctionWithoutTies == NoTies(MergedCatalog) => C11_OrderIsFunctionOfSet

\* The change log is one line per added entry wherever no added display name
\* holds a line break.
LogIsOneLinePerAddedWithoutLineBreaks ==
    NoLineBreakAdded => C13_LogIsOneLinePerAdded

\* The merge tolerates a catalog file that is missing, empty or not JSON.
ToleranceOfUndecodableFiles == prior.kind # "notobject" => C14_PriorTolerance

\* Primary and aliases are those of the submission order in the executions
\* whose downloads complete in that order.
PrimaryIsFirstSubmittedWhenInOrder ==
    CompletedInSubmissionOrder => C15_PrimaryIsFirstSubmitted

\* Every mapped url is in the catalog and the asset directory wherever equal
\* bytes come with one extension and the catalog found has no url twice.
MappedUrlsInCatalogWithoutBoth ==
    (OneExtPerHash /\ ~HasDuplicateUrl(OldIcons(prior))) => C18_MappedUrlsInCatalog

====
